---- MODULE Spec2Model ----
(***************************************************************************)
(* rattle - Rate And Time To Limit Estimate (RattleSup/Rattle.c).          *)
(*                                                                         *)
(* The aSub record functions RattleInit and RattleProcess, the least       *)
(* squares fit slopeIntersect and the per-record data (RecordData) they    *)
(* work on.  epicsFloat64 values are modelled as IEEE-754 doubles whose    *)
(* finite values are exact rationals: NaN, the two infinities and the      *)
(* sign of zero are kept, rounding is not.  An epicsTimeStamp is a whole   *)
(* number of seconds.                                                      *)
(***************************************************************************)
EXTENDS Integers, Sequences, FiniteSets, TLC

VARIABLES
    ft,         \* prec->ft<x>: the menuFtype of each field of the record
    atInit,     \* history: the input fields as RattleInit found them
    inp,        \* prec->a .. prec->t and the time stamp the host supplies
    dpvt,       \* prec->dpvt: <<>> is NULL, <<pData>> the RecordData
    pact,       \* prec->pact
    out,        \* prec->vala .. prec->vali
    ret,        \* status returned by the latest record function
    number,     \* numberSamples[4] of the latest fits
    slope,      \* rate[4] as slopeIntersect returned it (before scaling)
    intersect,  \* intersect[4] of the latest fits
    log,        \* history: measurements inserted since setup / last reset
    raws,       \* history: raw samples accepted since setup / last reset
    fresh,      \* history: a freshly initialised store fed the same cycles
    nAccepted,  \* history: number of accepted cycles
    nResets     \* history: number of cycles that reset the store

vars == <<ft, atInit, inp, dpvt, pact, out, ret, number, slope, intersect,
          log, raws, fresh, nAccepted, nResets>>

\* --------------------------------------------------------------------------
\* Bounds of the exploration
\* --------------------------------------------------------------------------
MaxAccepted == 3
MaxTimeAccepted == 3
MaxRampAccepted == 6
MaxRampResets == 1
FillLevel == 9
MaxFillAccepted == 13
MaxFitCount == 3
MaxSetupAccepted == 2
MaxFlagsAccepted == 2
MaxOrderAccepted == 12
MaxScaleAccepted == 10

\* --------------------------------------------------------------------------
\* Program constants
\* --------------------------------------------------------------------------
epicsSevInvalid == 3
MinimumSamples == 10
MaximumSamples == 32768
NumberSlots == 4

\* --------------------------------------------------------------------------
\* epicsFloat64
\* --------------------------------------------------------------------------
Abs(n) == IF n < 0 THEN -n ELSE n

RECURSIVE GCD(_, _)
GCD(a, b) == IF b = 0 THEN a ELSE GCD(b, a % b)

NaN == [k |-> "nan", n |-> 0, d |-> 1]
PInf == [k |-> "pinf", n |-> 0, d |-> 1]
NInf == [k |-> "ninf", n |-> 0, d |-> 1]
Zero == [k |-> "fin", n |-> 0, d |-> 1]
NegZero == [k |-> "negzero", n |-> 0, d |-> 1]

\* The double n/d (d > 0) in lowest terms; a zero numerator is +0.
Rat(n, d) == LET g == GCD(Abs(n), d) IN [k |-> "fin", n |-> n \div g, d |-> d \div g]

\* Conversion of an integer to a double.
D(n) == Rat(n, 1)

isnan(x) == x.k = "nan"
isinf(x) == x.k \in {"pinf", "ninf"}
IsZero(x) == x.k = "negzero" \/ (x.k = "fin" /\ x.n = 0)
IsFinite(x) == x.k \in {"fin", "negzero"}
SignBit(x) == x.k \in {"ninf", "negzero"} \/ (x.k = "fin" /\ x.n < 0)

SignedInf(neg) == IF neg THEN NInf ELSE PInf
SignedZero(neg) == IF neg THEN NegZero ELSE Zero

DNeg(x) ==
    CASE x.k = "nan" -> NaN
      [] x.k = "pinf" -> NInf
      [] x.k = "ninf" -> PInf
      [] x.k = "negzero" -> Zero
      [] OTHER -> IF x.n = 0 THEN NegZero ELSE [x EXCEPT !.n = -x.n]

DAdd(x, y) ==
    IF isnan(x) \/ isnan(y) THEN NaN
    ELSE IF isinf(x) /\ isinf(y) THEN (IF x.k = y.k THEN x ELSE NaN)
    ELSE IF isinf(x) THEN x
    ELSE IF isinf(y) THEN y
    ELSE IF IsZero(x) /\ IsZero(y)
         THEN (IF x.k = "negzero" /\ y.k = "negzero" THEN NegZero ELSE Zero)
    ELSE Rat(x.n * y.d + y.n * x.d, x.d * y.d)

DSub(x, y) == DAdd(x, DNeg(y))

DMul(x, y) ==
    LET neg == SignBit(x) # SignBit(y) IN
    IF isnan(x) \/ isnan(y) THEN NaN
    ELSE IF isinf(x) \/ isinf(y)
         THEN (IF IsZero(x) \/ IsZero(y) THEN NaN ELSE SignedInf(neg))
    ELSE IF IsZero(x) \/ IsZero(y) THEN SignedZero(neg)
    ELSE Rat(x.n * y.n, x.d * y.d)

DDiv(x, y) ==
    LET neg == SignBit(x) # SignBit(y) IN
    IF isnan(x) \/ isnan(y) THEN NaN
    ELSE IF isinf(x) THEN (IF isinf(y) THEN NaN ELSE SignedInf(neg))
    ELSE IF isinf(y) THEN SignedZero(neg)
    ELSE IF IsZero(y) THEN (IF IsZero(x) THEN NaN ELSE SignedInf(neg))
    ELSE IF IsZero(x) THEN SignedZero(neg)
    ELSE IF y.n < 0 THEN Rat(-(x.n * y.d), x.d * (-y.n))
    ELSE Rat(x.n * y.d, x.d * y.n)

\* x <= 0 on doubles: false for NaN.
DLeZero(x) == x.k \in {"ninf", "negzero"} \/ (x.k = "fin" /\ x.n <= 0)

\* x < y on doubles: false when either is NaN.
DLess(x, y) ==
    /\ ~isnan(x) /\ ~isnan(y)
    /\ x.k # "pinf" /\ y.k # "ninf"
    /\ \/ x.k = "ninf" /\ y.k # "ninf"
       \/ y.k = "pinf" /\ x.k # "pinf"
       \/ IsFinite(x) /\ IsFinite(y) /\ x.n * y.d < y.n * x.d

\* --------------------------------------------------------------------------
\* Macros
\* --------------------------------------------------------------------------
MAX(a, b) == IF a >= b THEN a ELSE b
MIN(a, b) == IF a <= b THEN a ELSE b
LIMIT(x, low, high) == MAX(low, MIN(x, high))
ZERO2ONE(x) == IF x <= 0 THEN 1 ELSE x
\* ZERO2ONE that replaces a zero only.
ZERO2ONE_DOUBLE_ZeroOnly(x) == IF IsZero(x) THEN D(1) ELSE x

ZERO2ONE_DOUBLE(x) == IF DLeZero(x) THEN D(1) ELSE x

LONG_VALUE(ftv, in, field, d) == IF ftv[field] = "LONG" THEN in[field] ELSE d
DOUBLE_VALUE(ftv, in, field, d) == IF ftv[field] = "DOUBLE" THEN in[field] ELSE d

\* isNanOrInfinite without the test for infinity.
isNanOrInfinite_NanOnly(x) == isnan(x)

isNanOrInfinite(x) == isnan(x) \/ isinf(x)

\* epicsTimeDiffInSeconds (left, right): left - right, in seconds.
epicsTimeDiffInSeconds(left, right) == D(left - right)

\* --------------------------------------------------------------------------
\* Sample and RecordData
\* --------------------------------------------------------------------------
Sample(t, v) == [time |-> t, value |-> v]

\* A calloc'ed Sample: all bits zero.
ZeroSample == Sample(0, Zero)

\* buffer[i], or what lies outside the allocation when i is no index of it.
ReadSample(pData, i, oob) ==
    IF i \in 0..(pData.maximumSamples - 1) THEN pData.buffer[i] ELSE oob

\* --------------------------------------------------------------------------
\* slopeIntersect: the slope/intersect of a least squares fit
\* --------------------------------------------------------------------------
ZeroSums == [x_sum |-> Zero, y_sum |-> Zero, xx_sum |-> Zero, xy_sum |-> Zero,
             actual_size |-> 0]

\* One pass of the loop body, for slot i.
FitTerm(pData, i, t0, sums, oob) ==
    LET x == epicsTimeDiffInSeconds(ReadSample(pData, i, oob).time, t0)
        y == ReadSample(pData, i, oob).value
    IN  [x_sum |-> DAdd(sums.x_sum, x),
         y_sum |-> DAdd(sums.y_sum, y),
         xx_sum |-> DAdd(sums.xx_sum, DMul(x, x)),
         xy_sum |-> DAdd(sums.xy_sum, DMul(x, y)),
         actual_size |-> sums.actual_size + 1]

\* for (i = firstSlot; i <= lastSlot; i++)
RECURSIVE FitLoop(_, _, _, _, _, _)
FitLoop(pData, i, lastSlot, t0, sums, oob) ==
    IF i <= lastSlot
    THEN FitLoop(pData, i + 1, lastSlot, t0, FitTerm(pData, i, t0, sums, oob), oob)
    ELSE sums

FirstSlot(pData, num) ==
    IF pData.sampleCount - num < 0 THEN 0 ELSE pData.sampleCount - num

LastSlot(pData) == pData.sampleCount - 1

\* LeastSquares with the times taken relative to the oldest sample fitted.
LeastSquares_FromOldest(pData, num, oob) ==
    LET firstSlot == FirstSlot(pData, num)
        lastSlot == LastSlot(pData)
        t0 == ReadSample(pData, firstSlot, oob).time
        s == FitLoop(pData, firstSlot, lastSlot, t0, ZeroSums, oob)
        delta == DSub(DMul(D(s.actual_size), s.xx_sum), DMul(s.x_sum, s.x_sum))
    IN  [slope |-> DDiv(DSub(DMul(D(s.actual_size), s.xy_sum),
                             DMul(s.x_sum, s.y_sum)), delta),
         intersect |-> DDiv(DSub(DMul(s.y_sum, s.xx_sum),
                                 DMul(s.x_sum, s.xy_sum)), delta)]

\* The result for number >= 2.
LeastSquares(pData, num, oob) ==
    LET firstSlot == FirstSlot(pData, num)
        lastSlot == LastSlot(pData)
        t0 == ReadSample(pData, lastSlot, oob).time
        s == FitLoop(pData, firstSlot, lastSlot, t0, ZeroSums, oob)
        delta == DSub(DMul(D(s.actual_size), s.xx_sum), DMul(s.x_sum, s.x_sum))
    IN  [slope |-> DDiv(DSub(DMul(D(s.actual_size), s.xy_sum),
                             DMul(s.x_sum, s.y_sum)), delta),
         intersect |-> DDiv(DSub(DMul(s.y_sum, s.xx_sum),
                                 DMul(s.x_sum, s.xy_sum)), delta)]

\* oob stands for the memory in front of the buffer, read as buffer[-1] when
\* the store holds no sample.
slopeIntersect(pData, num, oob) ==
    IF num < 1 THEN [slope |-> Zero, intersect |-> Zero]
    ELSE IF num < 2
         THEN [slope |-> Zero,
               intersect |-> ReadSample(pData, LastSlot(pData), oob).value]
    ELSE LeastSquares(pData, num, oob)

\* The indices at which slopeIntersect reads buffer: lastSlot for the
\* intersect or t0, and firstSlot .. lastSlot in the loop.
SlotsRead(pData, num) ==
    IF num < 1 THEN {}
    ELSE IF num < 2 THEN {LastSlot(pData)}
    ELSE {LastSlot(pData)} \cup (FirstSlot(pData, num)..LastSlot(pData))

\* --------------------------------------------------------------------------
\* RattleInit
\* --------------------------------------------------------------------------
Fields == {"a", "b", "c", "d", "e", "f", "g", "h", "i", "j", "l", "m", "r", "s", "t",
           "vala", "valb", "valc"}

\* The fields CHECK_FIELD_TYPE verifies, with the type each must have.
RequiredType ==
    [x \in {"a", "c", "s", "t", "valb", "valc"} |-> "DOUBLE"] @@
    [x \in {"b", "l", "j", "m", "r", "vala"} |-> "LONG"]

\* FieldTypesOk without the checks of FTVA, FTVB and FTVC.
FieldTypesOk_InputsOnly(ftv) ==
    \A x \in DOMAIN RequiredType \ {"vala", "valb", "valc"} : ftv[x] = RequiredType[x]

FieldTypesOk(ftv) == \A x \in DOMAIN RequiredType : ftv[x] = RequiredType[x]

\* The RecordData RattleInit allocates for a buffer of num samples.
NewRecordData(num) ==
    [buffer |-> [i \in 0..(num - 1) |-> ZeroSample],
     sampleCount |-> 0,
     maximumSamples |-> num,
     decimateCount |-> 0,
     decimateTotal |-> Zero]

\* InitNumber without the maximum (INPM).
InitNumber_NoMaximum(ftv, in) ==
    LET n1 == LONG_VALUE(ftv, in, "b", 0)
        n2 == LONG_VALUE(ftv, in, "d", 0)
        n3 == LONG_VALUE(ftv, in, "f", 0)
        n4 == LONG_VALUE(ftv, in, "h", 0)
        max == MAX(MAX(n1, n2), MAX(n3, n4))
    IN  LIMIT(max, MinimumSamples, MaximumSamples)

\* Size of the buffer, from the sample sizes known when the record starts.
InitNumber(ftv, in) ==
    LET n1 == LONG_VALUE(ftv, in, "b", 0)
        n2 == LONG_VALUE(ftv, in, "d", 0)
        n3 == LONG_VALUE(ftv, in, "f", 0)
        n4 == LONG_VALUE(ftv, in, "h", 0)
        n5 == LONG_VALUE(ftv, in, "m", 0)
        max == MAX(MAX(MAX(n1, n2), MAX(n3, n4)), n5)
    IN  LIMIT(max, MinimumSamples, MaximumSamples)

RattleInit(ftv, in) ==
    IF ~FieldTypesOk(ftv)
    THEN [dpvt |-> <<>>, pact |-> 1, ret |-> -1]
    ELSE [dpvt |-> <<NewRecordData(InitNumber(ftv, in))>>, pact |-> 0, ret |-> 0]

\* --------------------------------------------------------------------------
\* RattleProcess
\* --------------------------------------------------------------------------
\* Slot j of the model is element j - 1 of the arrays numberSamples,
\* thresholds, rate, intersect and eta.
Slots == 1..NumberSlots

numberSamples(ftv, in, pData) ==
    <<LIMIT(LONG_VALUE(ftv, in, "b", 2), 2, pData.maximumSamples),
      LIMIT(LONG_VALUE(ftv, in, "d", 2), 2, pData.maximumSamples),
      LIMIT(LONG_VALUE(ftv, in, "f", 2), 2, pData.maximumSamples),
      LIMIT(LONG_VALUE(ftv, in, "h", 2), 2, pData.maximumSamples)>>

thresholds(ftv, in) ==
    <<DOUBLE_VALUE(ftv, in, "c", Zero),
      DOUBLE_VALUE(ftv, in, "e", Zero),
      DOUBLE_VALUE(ftv, in, "g", Zero),
      DOUBLE_VALUE(ftv, in, "i", Zero)>>

decimateFactor(ftv, in) == ZERO2ONE(LONG_VALUE(ftv, in, "l", 1))
doReset(in) == in.r = 1
rateOfChangeFactor(ftv, in) == ZERO2ONE_DOUBLE(DOUBLE_VALUE(ftv, in, "s", D(1)))
timeEstimateFactor(ftv, in) == ZERO2ONE_DOUBLE(DOUBLE_VALUE(ftv, in, "t", D(1)))

\* ResetData that leaves the running sum of the decimation.
ResetData_KeepTotal(pData) ==
    [pData EXCEPT !.sampleCount = 0, !.decimateCount = 0]

\* if (doReset) { ... }
ResetData(pData) ==
    [pData EXCEPT !.sampleCount = 0, !.decimateCount = 0, !.decimateTotal = Zero]

\* if (pData->decimateCount < decimateFactor) { ... }
Accumulate(pData, value, factor) ==
    IF pData.decimateCount < factor
    THEN [pData EXCEPT !.decimateCount = @ + 1, !.decimateTotal = DAdd(@, value)]
    ELSE pData

\* HasMeasurement that waits for one value more.
HasMeasurement_Late(pData, factor) == pData.decimateCount > factor

\* Do we have enough to calculate an average?
HasMeasurement(pData, factor) == pData.decimateCount >= factor

\* Measurement that takes the latest value for the average.
Measurement_Latest(pData, value, time, factor) == Sample(time, value)

Measurement(pData, value, time, factor) ==
    Sample(time, IF factor = 1 THEN value ELSE DDiv(pData.decimateTotal, D(factor)))

\* ShuffleBuffer with the memmove left out.
ShuffleBuffer_NoMove(pData) == pData.buffer

\* memmove (&buffer[0], &buffer[1], (maximumSamples - 1) * sizeof (buffer[0]))
ShuffleBuffer(pData) ==
    [i \in DOMAIN pData.buffer |->
        IF i < pData.maximumSamples - 1 THEN pData.buffer[i + 1] ELSE pData.buffer[i]]

\* AddMeasurement that puts the measurement in the first slot of a full
\* buffer.
AddMeasurement_FirstSlot(pData, m) ==
    IF pData.sampleCount < pData.maximumSamples
    THEN [pData EXCEPT !.buffer[pData.sampleCount] = m, !.sampleCount = @ + 1]
    ELSE [pData EXCEPT !.buffer = [ShuffleBuffer(pData) EXCEPT ![0] = m]]

\* AddMeasurement with the test for a full buffer off by one.
AddMeasurement_OffByOne(pData, m) ==
    IF pData.sampleCount <= pData.maximumSamples
    THEN [pData EXCEPT !.buffer = [i \in DOMAIN @ |-> IF i = pData.sampleCount THEN m ELSE @[i]],
                       !.sampleCount = @ + 1]
    ELSE [pData EXCEPT !.buffer = [ShuffleBuffer(pData) EXCEPT ![pData.maximumSamples - 1] = m]]

\* Add the measurement to the buffer, shuffling the data when it is full.
AddMeasurement(pData, m) ==
    IF pData.sampleCount < pData.maximumSamples
    THEN [pData EXCEPT !.buffer[pData.sampleCount] = m, !.sampleCount = @ + 1]
    ELSE [pData EXCEPT !.buffer = [ShuffleBuffer(pData) EXCEPT ![pData.maximumSamples - 1] = m]]

\* The indices of buffer the insertion of a measurement uses: the next free
\* slot, or all of them when the memmove shuffles a full buffer.
InsertSlots(pData) ==
    IF pData.sampleCount < pData.maximumSamples THEN {pData.sampleCount}
    ELSE 0..(pData.maximumSamples - 1)

\* The decimation and storage of one accepted value.
Ingest(pData, value, time, factor) ==
    LET acc == Accumulate(pData, value, factor) IN
    IF HasMeasurement(acc, factor)
    THEN AddMeasurement([acc EXCEPT !.decimateCount = 0, !.decimateTotal = Zero],
                        Measurement(acc, value, time, factor))
    ELSE acc

\* The four fits of one cycle.
Fits(pData, num, oob) ==
    <<slopeIntersect(pData, num[1], oob), slopeIntersect(pData, num[2], oob),
      slopeIntersect(pData, num[3], oob), slopeIntersect(pData, num[4], oob)>>

\* Eta that gives 0 for a slope of 0.
Eta_Guarded(threshold, fit) ==
    IF IsZero(fit.slope) \/ isnan(fit.slope) THEN Zero
    ELSE DDiv(DSub(threshold, fit.intersect), fit.slope)

Eta(threshold, fit) == DDiv(DSub(threshold, fit.intersect), fit.slope)

\* Outputs with the eta multiplied by the time factor.
Outputs_EtaTimesFactor(ftv, in, pData, fits) ==
    LET thr == thresholds(ftv, in)
        rate(j) == DMul(fits[j].slope, rateOfChangeFactor(ftv, in))
        eta(j) == DMul(Eta(thr[j], fits[j]), timeEstimateFactor(ftv, in))
    IN  [vala |-> pData.sampleCount,
         valb |-> rate(1), valc |-> eta(1),
         vald |-> rate(2), vale |-> eta(2),
         valf |-> rate(3), valg |-> eta(3),
         valh |-> rate(4), vali |-> eta(4)]

\* The output fields of an accepted cycle.
Outputs(ftv, in, pData, fits) ==
    LET thr == thresholds(ftv, in)
        rate(j) == DMul(fits[j].slope, rateOfChangeFactor(ftv, in))
        eta(j) == DDiv(Eta(thr[j], fits[j]), timeEstimateFactor(ftv, in))
    IN  [vala |-> pData.sampleCount,
         valb |-> rate(1), valc |-> eta(1),
         vald |-> rate(2), vale |-> eta(2),
         valf |-> rate(3), valg |-> eta(3),
         valh |-> rate(4), vali |-> eta(4)]

\* CycleKind with the value tested before the severity.
CycleKind_ValueFirst(ftv, in, dp) ==
    IF dp = <<>> THEN "nodata"
    ELSE IF isNanOrInfinite(in.a) THEN "reject"
    ELSE IF LONG_VALUE(ftv, in, "j", 0) >= epicsSevInvalid THEN "skip"
    ELSE "accept"

\* What the cycle is: refused for want of data, skipped, rejected or accepted.
CycleKind(ftv, in, dp) ==
    IF dp = <<>> THEN "nodata"
    ELSE IF LONG_VALUE(ftv, in, "j", 0) >= epicsSevInvalid THEN "skip"
    ELSE IF isNanOrInfinite(in.a) THEN "reject"
    ELSE "accept"

\* ProcessData with the reset after the decimation.
ProcessData_ResetLast(ftv, in, pData) ==
    LET stored == Ingest(pData, in.a, in.time, decimateFactor(ftv, in))
    IN  IF doReset(in) THEN ResetData(stored) ELSE stored

\* The store after the accepted cycle.
ProcessData(ftv, in, pData) ==
    Ingest(IF doReset(in) THEN ResetData(pData) ELSE pData,
           in.a, in.time, decimateFactor(ftv, in))

\* The indices of buffer an accepted cycle uses, in the insertion and in the
\* four fits.
SlotsUsed(ftv, in, pData) ==
    LET acc == Accumulate(IF doReset(in) THEN ResetData(pData) ELSE pData,
                          in.a, decimateFactor(ftv, in))
        after == ProcessData(ftv, in, pData)
        num == numberSamples(ftv, in, after)
    IN  (IF HasMeasurement(acc, decimateFactor(ftv, in)) THEN InsertSlots(acc) ELSE {})
        \cup SlotsRead(after, num[1]) \cup SlotsRead(after, num[2])
        \cup SlotsRead(after, num[3]) \cup SlotsRead(after, num[4])

\* One call of RattleProcess: the record after it, the status it returns
\* and, of an accepted cycle, the sample sizes and the fits it made.
RattleProcess(ftv, in, dp, outv, oob) ==
    LET kind == CycleKind(ftv, in, dp) IN
    IF kind = "nodata" THEN [dpvt |-> dp, out |-> outv, ret |-> -1, fits |-> <<>>]
    ELSE IF kind = "skip" THEN [dpvt |-> dp, out |-> outv, ret |-> 0, fits |-> <<>>]
    ELSE IF kind = "reject" THEN [dpvt |-> dp, out |-> outv, ret |-> -1, fits |-> <<>>]
    ELSE LET pData == ProcessData(ftv, in, dp[1])
             fits == Fits(pData, numberSamples(ftv, in, pData), oob)
         IN  [dpvt |-> <<pData>>, out |-> Outputs(ftv, in, pData, fits), ret |-> 0,
              fits |-> fits]

\* --------------------------------------------------------------------------
\* The record and its host
\* --------------------------------------------------------------------------
\* Field types of a record set up as the module's header describes, with the
\* second sample size (INPD) and the third threshold (INPG) left undeclared.
GoodTypes ==
    [x \in Fields |->
        IF x \in DOMAIN RequiredType THEN RequiredType[x]
        ELSE IF x \in {"f", "h"} THEN "LONG"
        ELSE IF x \in {"d", "g"} THEN "STRING"
        ELSE "DOUBLE"]

\* The same record with INPA declared LONG.
BadTypes == [GoodTypes EXCEPT !["a"] = "LONG"]

\* The input fields when the record starts: INPF is a link not yet read.
StartInput(t) ==
    [a |-> Zero, b |-> 2, c |-> D(1), d |-> 0, e |-> D(2), f |-> 0, g |-> 0,
     h |-> 5, i |-> D(100), j |-> 0, l |-> 1, m |-> 0, r |-> 0,
     s |-> D(1), t |-> D(1), time |-> t]

\* The input fields of a cycle, before the host writes the ones that vary.
BaseInput == [StartInput(inp.time) EXCEPT !.f = 20]

\* The output fields as the host allocates them.
StartOutput ==
    [vala |-> 0, valb |-> Zero, valc |-> Zero, vald |-> Zero, vale |-> Zero,
     valf |-> Zero, valg |-> Zero, valh |-> Zero, vali |-> Zero]

\* What buffer[-1] may hold.
OobSamples == {ZeroSample, Sample(7, D(5)), Sample(0, NaN)}

NoFits == <<>>

\* The record after RattleInit, with the buffer, counts and sums of pData0
\* where given (a store some earlier cycles have left).
Started(ftv, in, pData0) ==
    LET r == RattleInit(ftv, in) IN
    /\ ft = ftv
    /\ atInit = in
    /\ inp = in
    /\ dpvt = (IF r.dpvt = <<>> \/ pData0 = <<>> THEN r.dpvt ELSE pData0)
    /\ pact = r.pact
    /\ ret = r.ret
    /\ out = StartOutput
    /\ number = NoFits /\ slope = NoFits /\ intersect = NoFits
    /\ log = (IF pData0 = <<>> THEN <<>>
              ELSE [k \in 1..pData0[1].sampleCount |-> pData0[1].buffer[k - 1]])
    /\ raws = <<>>
    /\ fresh = (IF r.dpvt = <<>> THEN <<>> ELSE <<[data |-> r.dpvt[1], out |-> StartOutput]>>)
    /\ nAccepted = 0 /\ nResets = 0

Init == \E ftv \in {GoodTypes, BadTypes} : Started(ftv, StartInput(0), <<>>)

\* The store before the decimation of an accepted cycle.
BeforeIngest(in, pData) == IF doReset(in) THEN ResetData(pData) ELSE pData

\* The measurement an accepted cycle inserts, if any.
Inserted(ftv, in, pData) ==
    LET acc == Accumulate(BeforeIngest(in, pData), in.a, decimateFactor(ftv, in)) IN
    IF HasMeasurement(acc, decimateFactor(ftv, in))
    THEN <<Measurement(acc, in.a, in.time, decimateFactor(ftv, in))>>
    ELSE <<>>

\* The freshly initialised store, fed the cycles since the latest reset.
FreshAfter(in, oob) ==
    LET start == IF doReset(in)
                 THEN NewRecordData(dpvt[1].maximumSamples)
                 ELSE fresh[1].data
        pData == Ingest(start, in.a, in.time, decimateFactor(ft, in))
    IN  <<[data |-> pData,
           out |-> Outputs(ft, in, pData,
                           Fits(pData, numberSamples(ft, in, pData), oob))]>>

\* The memory a cycle may find at buffer[-1]: read when the store is empty.
OobFor(in) ==
    IF CycleKind(ft, in, dpvt) = "accept"
    THEN (IF ProcessData(ft, in, dpvt[1]).sampleCount = 0
          THEN OobSamples \X OobSamples ELSE {<<ZeroSample, ZeroSample>>})
    ELSE {<<ZeroSample, ZeroSample>>}

\* The host processes the record once with the input fields in.
Process(in, oob, oobFresh) ==
    \E r \in {RattleProcess(ft, in, dpvt, out, oob)} :
    /\ inp' = in
    /\ dpvt' = r.dpvt
    /\ out' = r.out
    /\ ret' = r.ret
    /\ UNCHANGED <<ft, atInit, pact>>
    /\ IF CycleKind(ft, in, dpvt) = "accept"
       THEN     /\ number' = numberSamples(ft, in, r.dpvt[1])
                /\ slope' = <<r.fits[1].slope, r.fits[2].slope,
                              r.fits[3].slope, r.fits[4].slope>>
                /\ intersect' = <<r.fits[1].intersect, r.fits[2].intersect,
                                  r.fits[3].intersect, r.fits[4].intersect>>
                /\ log' = (IF doReset(in) THEN <<>> ELSE log) \o Inserted(ft, in, dpvt[1])
                /\ raws' = Append(IF doReset(in) THEN <<>> ELSE raws,
                                  [value |-> in.a, time |-> in.time,
                                   factor |-> decimateFactor(ft, in),
                                   pending |-> BeforeIngest(in, dpvt[1]).decimateCount,
                                   stored |-> Inserted(ft, in, dpvt[1])])
                /\ fresh' = FreshAfter(in, oobFresh)
                /\ nAccepted' = nAccepted + 1
                /\ nResets' = nResets + (IF doReset(in) THEN 1 ELSE 0)
       ELSE UNCHANGED <<number, slope, intersect, log, raws, fresh, nAccepted, nResets>>

ProcessOne(in) == \E o \in OobFor(in) : Process(in, o[1], o[2])

\* --------------------------------------------------------------------------
\* Inputs of the cycles
\* --------------------------------------------------------------------------
\* The time stamp moves on only where a cycle reads it.
AcceptInputs(values, factors, resets, steps) ==
    {[BaseInput EXCEPT !.a = v, !.l = k, !.r = rr, !.time = inp.time + dt] :
        v \in values, k \in factors, rr \in resets,
        dt \in (IF dpvt = <<>> THEN {0} ELSE steps)}

SkipInputs ==
    {[BaseInput EXCEPT !.j = epicsSevInvalid, !.a = NaN, !.r = 1],
     [BaseInput EXCEPT !.j = epicsSevInvalid + 1, !.a = D(1)]}

RejectInputs ==
    {[BaseInput EXCEPT !.a = NaN, !.r = 1], [BaseInput EXCEPT !.a = PInf],
     [BaseInput EXCEPT !.a = NInf]}

\* Any value, decimation factor and reset flag, the clock ticking.
Inputs ==
    (IF nAccepted < MaxAccepted
     THEN AcceptInputs({D(1), D(2)}, {1, 2}, {0, 1}, {1}) ELSE {})
    \cup SkipInputs \cup RejectInputs

Next == \E in \in Inputs : ProcessOne(in)

Spec == Init /\ [][Next]_vars

\* Cycles whose time stamp may repeat the one before.
TimeInputs ==
    (IF nAccepted < MaxTimeAccepted
     THEN AcceptInputs({D(1), D(2)}, {1, 2}, {0}, {0, 1}) ELSE {})
    \cup {[BaseInput EXCEPT !.a = NaN]}

NextTime == \E in \in TimeInputs : ProcessOne(in)

SpecTime == Init /\ [][NextTime]_vars

\* The values 1, 2, 3, .. one second apart, with any of three decimation
\* factors and a reset now and then.
RampInputs ==
    (IF nAccepted < MaxRampAccepted
     THEN AcceptInputs({D(nAccepted + 1)}, {1, 2, 3},
                       IF nResets < MaxRampResets THEN {0, 1} ELSE {0}, {1})
     ELSE {})
    \cup {[BaseInput EXCEPT !.a = NaN]}

NextRamp == \E in \in RampInputs : ProcessOne(in)

SpecRamp == Init /\ [][NextRamp]_vars

\* The values 0, 2, 4, .. at the times 0, 1, 2, ..: stored one by one until
\* the store holds FillLevel of them, then with any decimation factor and
\* reset flag, and with skipped and rejected cycles in between.
FillInputs ==
    LET value == {D(2 * (inp.time + 1))}
        more == nAccepted < MaxFillAccepted
    IN  IF dpvt # <<>> /\ dpvt[1].sampleCount < FillLevel /\ nResets = 0
        THEN (IF more THEN AcceptInputs(value, {1}, {0}, {1}) ELSE {})
        ELSE (IF more THEN AcceptInputs(value, {1, 2}, {0, 1}, {1}) ELSE {})
             \cup SkipInputs \cup RejectInputs

NextFill == \E in \in FillInputs : ProcessOne(in)

InitFill == \E ftv \in {GoodTypes, BadTypes} : Started(ftv, StartInput(-1), <<>>)

SpecFill == InitFill /\ [][NextFill]_vars

\* --------------------------------------------------------------------------
\* slopeIntersect on its own
\* --------------------------------------------------------------------------
FitValues == {D(-1), D(0), D(1), D(2)}
FitSteps == {0, 1, 2}
FitNumbers == {-1, 0, 1, 2, 3, MinimumSamples}

\* The stores of count samples whose latest one is m.
RECURSIVE StoresEnding(_, _)
StoresEnding(count, m) ==
    IF count = 1 THEN {AddMeasurement(NewRecordData(MinimumSamples), m)}
    ELSE UNION {{AddMeasurement(pd, m) :
                    pd \in StoresEnding(count - 1, Sample(m.time - dt, v))} :
                        v \in FitValues, dt \in FitSteps}

\* The stores cycles can leave that hold up to MaxFitCount samples.
FitStores ==
    {NewRecordData(MinimumSamples)} \cup
    UNION {StoresEnding(count, Sample(2 * MaxFitCount, v)) :
              count \in 1..MaxFitCount, v \in FitValues}

InitFit ==
    \E pd \in FitStores :
        /\ Started(GoodTypes, StartInput(0), <<pd>>)

\* A caller fits the latest num samples.
FitCall(num, oob) ==
    \E fit \in {slopeIntersect(dpvt[1], num, oob)} :
        /\ number' = <<num>>
        /\ slope' = <<fit.slope>>
        /\ intersect' = <<fit.intersect>>
        /\ UNCHANGED <<ft, atInit, inp, dpvt, pact, out, ret, log, raws, fresh,
                       nAccepted, nResets>>

NextFit ==
    \E num \in FitNumbers :
        \E oob \in (IF dpvt[1].sampleCount = 0 THEN OobSamples ELSE {ZeroSample}) :
            FitCall(num, oob)

SpecFit == InitFit /\ [][NextFit]_vars

\* --------------------------------------------------------------------------
\* Records of other field types and sample sizes
\* --------------------------------------------------------------------------
\* A menuFtype that is not the one given.
OtherType(kind) == IF kind = "LONG" THEN "ULONG" ELSE "FLOAT"

\* GoodTypes with one of the fields RattleInit verifies declared otherwise.
WrongTypes ==
    {[GoodTypes EXCEPT ![x] = OtherType(RequiredType[x])] : x \in DOMAIN RequiredType}

\* GoodTypes with the sample sizes RattleInit does not verify (INPD, INPF,
\* INPH) declared LONG or not.
SizeTypes ==
    {[GoodTypes EXCEPT !["d"] = td, !["f"] = tf, !["h"] = th] :
        td \in {"STRING", "LONG"}, tf \in {"LONG", "DOUBLE"}, th \in {"LONG", "SHORT"}}

\* The sample sizes and the maximum when the record starts: <<b, d, f, h, m>>.
SetupSizes ==
    {<<2, 0, 0, 5, 0>>, <<12, 15, 0, 5, 0>>, <<2, 0, 0, 5, 11>>,
     <<2, 0, MaximumSamples + 1, 5, 0>>, <<2, 0, 0, 5, -5>>, <<2, 14, 13, 16, 0>>}

SetupInput(sz) ==
    [StartInput(0) EXCEPT !.b = sz[1], !.d = sz[2], !.f = sz[3], !.h = sz[4], !.m = sz[5]]

InitSetup ==
    \/ \E ftv \in SizeTypes : \E sz \in SetupSizes : Started(ftv, SetupInput(sz), <<>>)
    \/ \E ftv \in WrongTypes : Started(ftv, StartInput(0), <<>>)

\* Cycles whose sample sizes and maximum are not the ones the record
\* started with.
SetupInputs ==
    (IF nAccepted < MaxSetupAccepted
     THEN {[in EXCEPT !.b = sz[1], !.m = sz[2]] :
              in \in AcceptInputs({D(nAccepted + 1)}, {1}, {0, 1}, {1}),
              sz \in {<<2, 0>>, <<40, 40>>}}
     ELSE {})
    \cup {[BaseInput EXCEPT !.j = epicsSevInvalid, !.b = 40],
          [BaseInput EXCEPT !.a = NaN, !.m = 40, !.r = 1]}

NextSetup == \E in \in SetupInputs : ProcessOne(in)

SpecSetup == InitSetup /\ [][NextSetup]_vars

\* --------------------------------------------------------------------------
\* Cycles with any decimation factor, reset flag and scale factors
\* --------------------------------------------------------------------------
FlagValues == {-1, 0, 1, 2}

\* The rate and time factors of a cycle: <<s, t>>.
ScalePairs == {<<D(1), D(1)>>, <<Zero, NegZero>>, <<D(-3), D(-1)>>}

\* The values 1, 2, .. one second apart.
FlagsInputs ==
    IF nAccepted < MaxFlagsAccepted
    THEN {[in EXCEPT !.s = sc[1], !.t = sc[2]] :
             in \in AcceptInputs({D(nAccepted + 1)}, FlagValues, FlagValues, {1}),
             sc \in ScalePairs}
    ELSE {}

NextFlags == \E in \in FlagsInputs : ProcessOne(in)

SpecFlags == Init /\ [][NextFlags]_vars

\* --------------------------------------------------------------------------
\* Cycles whose time stamps may repeat or go back
\* --------------------------------------------------------------------------
\* The store is filled as in SpecFill; from FillLevel on the time stamp of a
\* cycle is the one before, one second later or one second earlier.
OrderInputs ==
    LET value == {D(2 * (inp.time + 1))}
        more == nAccepted < MaxOrderAccepted
    IN  IF ~more THEN {}
        ELSE IF dpvt # <<>> /\ dpvt[1].sampleCount < FillLevel /\ nResets = 0
        THEN AcceptInputs(value, {1}, {0}, {1})
        ELSE AcceptInputs(value, {1, 2}, {0, 1}, {-1, 0, 1})

NextOrder == \E in \in OrderInputs : ProcessOne(in)

SpecOrder == InitFill /\ [][NextOrder]_vars

\* --------------------------------------------------------------------------
\* A line, with any scale factors
\* --------------------------------------------------------------------------
ScaleFactors == {D(1), D(2), Rat(1, 2)}

\* The values 2 * t or -2 * t at the times t = 0, 1, 2, ..: the line rises or
\* falls as its first step did.
ScaleInputs ==
    LET t == inp.time + 1
        values == IF DLess(Zero, inp.a) THEN {D(2 * t)}
                  ELSE IF DLess(inp.a, Zero) THEN {D(-(2 * t))}
                  ELSE {D(2 * t), D(-(2 * t))}
    IN  IF nAccepted < MaxScaleAccepted
        THEN {[in EXCEPT !.s = sf, !.t = tf] :
                 in \in AcceptInputs(values, {1}, {0}, {1}),
                 sf \in ScaleFactors, tf \in ScaleFactors}
        ELSE {}

NextScale == \E in \in ScaleInputs : ProcessOne(in)

SpecScale == InitFill /\ [][NextScale]_vars

\* --------------------------------------------------------------------------
\* Properties
\* --------------------------------------------------------------------------
HasData == dpvt # <<>>
pData == dpvt[1]

\* The stored measurements, oldest first.
Stored(pd) == [k \in 1..pd.sampleCount |-> pd.buffer[k - 1]]

\* The latest n elements of a sequence.
Latest(seq, n) == [k \in 1..n |-> seq[Len(seq) - n + k]]

\* What the input fields in say of the cycle.
SeverityInvalid(in) == in.j >= epicsSevInvalid
ValueNonFinite(in) == in.a \in {NaN, PInf, NInf}
Acceptable(in) == ~SeverityInvalid(in) /\ ~ValueNonFinite(in)

\* The latest call of RattleProcess was an accepted cycle.
LastAccepted ==
    /\ HasData
    /\ nAccepted > 0
    /\ Acceptable(inp)

\* C1: after a successful setup and any cycles, the number of stored
\* measurements is at least 0 and at most the capacity (maximumSamples).
C1_CountWithinCapacity ==
    HasData => /\ 0 <= pData.sampleCount
               /\ pData.sampleCount <= pData.maximumSamples
               /\ DOMAIN pData.buffer = 0..(pData.maximumSamples - 1)

\* C1 witness: a measurement was inserted into a full store.
C1_Witness ==
    /\ HasData
    /\ pData.sampleCount = pData.maximumSamples
    /\ Len(log) = pData.maximumSamples + 1

\* This step inserts a measurement into a store that is full.
InsertsIntoFull ==
    /\ HasData
    /\ Acceptable(inp')
    /\ inp'.r # 1
    /\ pData.sampleCount = pData.maximumSamples
    /\ Len(log') = Len(log) + 1

\* The store holds the latest min(k, capacity) of the k measurements
\* inserted since setup or the latest reset, oldest first.
HoldsLatest ==
    HasData => LET n == MIN(Len(log), pData.maximumSamples) IN
               /\ pData.sampleCount = n
               /\ Stored(pData) = Latest(log, n)

\* C2: inserting into a full store discards the oldest measurement, moves
\* the others one slot to the front in their order, puts the new one in the
\* last slot and leaves the length at capacity; after k insertions the store
\* holds the latest min(k, capacity) inserted measurements, oldest first.
C2_EvictsOldest ==
    [][/\ InsertsIntoFull =>
            /\ pData'.sampleCount = pData.maximumSamples
            /\ \A i \in 0..(pData.maximumSamples - 2) :
                  pData'.buffer[i] = pData.buffer[i + 1]
            /\ pData'.buffer[pData.maximumSamples - 1] = log'[Len(log')]
       /\ HoldsLatest']_vars

\* C2 witness: two measurements were inserted into a full store.
C2_Witness ==
    /\ HasData
    /\ pData.sampleCount = pData.maximumSamples
    /\ Len(log) = pData.maximumSamples + 2
    /\ pData.buffer[0] = log[3]

\* The sum of the values of raws[first..last].
RECURSIVE SumOfRaws(_, _)
SumOfRaws(first, last) ==
    IF last < first THEN Zero
    ELSE DAdd(SumOfRaws(first, last - 1), raws[last].value)

\* The cycles raws[first..last] all had the decimation factor k, and the
\* decimation accumulator was empty before the first of them.
ConstantFactor(first, last, k) ==
    /\ raws[first].pending = 0
    /\ \A c \in first..last : raws[c].factor = k

\* C3: with a constant decimation factor k and starting from an empty
\* accumulator, k accepted raw values give exactly one measurement, stored
\* with the k-th: their mean (the raw value when k = 1) at the time of the
\* k-th; fewer than k accepted raw values store no measurement.
C3_DecimationMean ==
    \A first \in 1..Len(raws) : \A last \in first..Len(raws) :
        LET k == raws[first].factor
            count == last - first + 1
        IN  (count <= k /\ ConstantFactor(first, last, k)) =>
                IF count < k
                THEN raws[last].stored = <<>>
                ELSE raws[last].stored =
                        <<Sample(raws[last].time,
                                 IF k = 1 THEN raws[last].value
                                 ELSE DDiv(SumOfRaws(first, last), D(k)))>>

\* C3 witness: factor 3 and the raw values 1 .. 6 leave two measurements,
\* valued 2 and 5.
C3_Witness ==
    /\ HasData
    /\ Len(raws) = 6
    /\ \A c \in 1..6 : raws[c].factor = 3 /\ raws[c].value = D(c)
    /\ pData.sampleCount = 2
    /\ pData.buffer[0].value = D(2)
    /\ pData.buffer[1].value = D(5)

\* No stored value and no running sum is NaN or infinite.
StoreIsFinite ==
    HasData => /\ \A i \in DOMAIN pData.buffer : IsFinite(pData.buffer[i].value)
               /\ IsFinite(pData.decimateTotal)

\* C4: a cycle whose value is NaN or infinite, with a severity below
\* invalid, returns a negative status and leaves the store, the decimation
\* accumulator and the outputs as they were, also with the reset flag set;
\* no NaN or infinite value is ever in the store.
C4_RejectsNonFinite ==
    [][/\ (ValueNonFinite(inp') /\ ~SeverityInvalid(inp')) =>
            /\ ret' < 0
            /\ dpvt' = dpvt
            /\ out' = out
       /\ StoreIsFinite']_vars

\* C4 witness: a NaN with the reset flag set was rejected while the store
\* held a measurement and the decimation was under way.
C4_Witness ==
    /\ HasData
    /\ ret = -1
    /\ inp.a = NaN /\ inp.r = 1 /\ inp.j = 0
    /\ pData.sampleCount > 0
    /\ pData.decimateCount > 0
    /\ out.vala > 0

\* C5: after a successful setup, a cycle whose severity is at or above
\* invalid returns 0 and leaves the store, the decimation accumulator and
\* the outputs as they were, whatever its other inputs.
C5_SkipsInvalid ==
    [][(HasData /\ SeverityInvalid(inp')) =>
            /\ ret' = 0
            /\ dpvt' = dpvt
            /\ out' = out]_vars

\* C5 witness: a cycle of invalid severity with a NaN value and the reset
\* flag set was skipped while the store held a measurement.
C5_Witness ==
    /\ HasData
    /\ ret = 0
    /\ inp.j = epicsSevInvalid /\ inp.a = NaN /\ inp.r = 1
    /\ pData.sampleCount > 0
    /\ pData.decimateCount > 0
    /\ out.vala > 0

\* C6: a store that was reset gives, cycle by cycle, the length, the stored
\* measurements, the decimation state and the outputs of a freshly
\* initialised store of the same capacity fed the same cycles; a reset sets
\* the length to 0, clears the decimation state, keeps the capacity, and
\* resetting twice is resetting once.
C6_ResetLikeFresh ==
    HasData =>
        /\ pData.sampleCount = fresh[1].data.sampleCount
        /\ Stored(pData) = Stored(fresh[1].data)
        /\ pData.decimateCount = fresh[1].data.decimateCount
        /\ pData.decimateTotal = fresh[1].data.decimateTotal
        /\ pData.maximumSamples = fresh[1].data.maximumSamples
        /\ out = fresh[1].out
        /\ ResetData(pData).sampleCount = 0
        /\ ResetData(pData).decimateCount = 0
        /\ ResetData(pData).decimateTotal = Zero
        /\ ResetData(pData).maximumSamples = pData.maximumSamples
        /\ ResetData(pData).buffer = pData.buffer
        /\ ResetData(ResetData(pData)) = ResetData(pData)

\* C6 witness: a full store was reset and has stored two measurements
\* since, in front of the ones the reset left behind.
C6_Witness ==
    /\ HasData
    /\ nResets = 1
    /\ Len(log) = 2
    /\ pData.sampleCount = 2
    /\ out.vala = 2
    /\ pData.buffer # fresh[1].data.buffer
    /\ pData.buffer[pData.maximumSamples - 1] # ZeroSample

\* The number of measurements the fit of slot j had in its window.
WindowCount(j) == IF number[j] < 1 THEN 0 ELSE MIN(number[j], pData.sampleCount)

\* The slots of the window of slot j.
WindowSlots(j) == (pData.sampleCount - WindowCount(j))..(pData.sampleCount - 1)

\* The outputs of slot j.
RateOut(j) == <<out.valb, out.vald, out.valf, out.valh>>[j]
EtaOut(j) == <<out.valc, out.vale, out.valg, out.vali>>[j]

\* C7: a fit whose window holds exactly one measurement returns slope 0 and
\* that measurement's value as intercept; the rate of the first cycle that
\* stores a measurement is 0, not NaN.
C7_SingleSampleFit ==
    HasData =>
        \A j \in DOMAIN number :
            WindowCount(j) = 1 =>
                /\ slope[j] = Zero
                /\ intersect[j] = pData.buffer[pData.sampleCount - 1].value
                /\ LastAccepted => RateOut(j) = Zero

\* C8: a fit whose window is empty returns slope 0 and intercept 0.
C8_EmptyWindowFit ==
    HasData =>
        \A j \in DOMAIN number :
            WindowCount(j) < 1 => slope[j] = Zero /\ intersect[j] = Zero

\* The measurements in slots first..last lie on the line of slope m that
\* has the value b at the time of the latest of them.
OnLine(first, last, m, b) ==
    \A i \in first..last :
        pData.buffer[i].value =
            DAdd(DMul(m, D(pData.buffer[i].time - pData.buffer[last].time)), b)

DistinctTimes(first, last) ==
    \A i, k \in first..last : i # k => pData.buffer[i].time # pData.buffer[k].time

\* C9: for a window size n >= 2 and a store of at least n measurements, the
\* latest n of which are at distinct times on one line, the fit returns the
\* slope of the line and, as intercept, its value at the time of the latest
\* measurement.
C9_ExactOnLine ==
    HasData =>
        \A j \in DOMAIN number :
            LET n == number[j]
                last == pData.sampleCount - 1
                first == pData.sampleCount - n
            IN  (n >= 2 /\ pData.sampleCount >= n /\ DistinctTimes(first, last)) =>
                    LET b == pData.buffer[last].value
                        m == DDiv(DSub(pData.buffer[last].value, pData.buffer[first].value),
                                  D(pData.buffer[last].time - pData.buffer[first].time))
                    IN  OnLine(first, last, m, b) =>
                            slope[j] = m /\ intersect[j] = b

\* C9 witness: three measurements two seconds apart, rising by one each,
\* were fitted: slope 1/2 and intercept 2, the latest value.
C9_Witness ==
    /\ HasData
    /\ pData.sampleCount = 3
    /\ number = <<3>>
    /\ DistinctTimes(0, 2)
    /\ pData.buffer[2].value = D(2)
    /\ slope = <<Rat(1, 2)>>
    /\ intersect = <<D(2)>>

\* The window of slot j holds measurements of one time only (or none).
TimesIdentical(j) ==
    \A i, k \in WindowSlots(j) : pData.buffer[i].time = pData.buffer[k].time

\* The window of slot j holds two or more measurements, of one value and at
\* distinct times.
ConstantStream(j) ==
    /\ WindowCount(j) >= 2
    /\ \A i, k \in WindowSlots(j) : pData.buffer[i].value = pData.buffer[k].value
    /\ \A i, k \in WindowSlots(j) :
          i # k => pData.buffer[i].time # pData.buffer[k].time

\* The cycle's sample went into the accumulator or into the store.
SampleIngested ==
    \/ pData.decimateCount > 0
    \/ pData.sampleCount > 0 /\ pData.buffer[pData.sampleCount - 1].time = inp.time

TypesAsExpected ==
    /\ ft.a = "DOUBLE" /\ ft.b = "LONG" /\ ft.c = "DOUBLE"
    /\ ft.l = "LONG" /\ ft.j = "LONG" /\ ft.m = "LONG" /\ ft.r = "LONG"
    /\ ft.s = "DOUBLE" /\ ft.t = "DOUBLE"
    /\ ft.vala = "LONG" /\ ft.valb = "DOUBLE" /\ ft.valc = "DOUBLE"

\* C11: when one of the fields A, B, C, J, L, M, R, S, T, VALA, VALB, VALC
\* is not of the expected type, setup returns an error, disables the record
\* (pact) and leaves it without a store; every later cycle returns a
\* negative status and changes neither the outputs nor any state.
C11_SetupFailureDisables ==
    /\ [](~TypesAsExpected => /\ ~HasData
                              /\ pact = 1
                              /\ ret < 0
                              /\ out = StartOutput)
    /\ [][~TypesAsExpected => /\ ret' < 0
                              /\ out' = out
                              /\ dpvt' = dpvt
                              /\ pact' = pact
                              /\ log' = log /\ raws' = raws]_vars

\* C11 witness: a record whose VALC is not DOUBLE was processed with an
\* acceptable value and the reset flag set; it has no store and the status
\* is negative.
C11_Witness ==
    /\ ft.valc # "DOUBLE"
    /\ ~HasData
    /\ pact = 1
    /\ inp.a = D(1) /\ inp.r = 1 /\ inp.j = 0
    /\ ret = -1
    /\ out = StartOutput

\* A sample size or the maximum as setup takes it: 0 unless the field is LONG.
SizeAtInit(x) == IF ft[x] = "LONG" THEN atInit[x] ELSE 0

LargestAtInit ==
    LET sizes == {SizeAtInit(x) : x \in {"b", "d", "f", "h", "m"}}
    IN  CHOOSE v \in sizes : \A w \in sizes : w <= v

\* C12: after a successful setup the capacity is the largest of the four
\* sample sizes and the maximum as they were at setup (0 for one whose field
\* is not LONG), brought into 10 .. 32768; no cycle changes it.
C12_CapacityFixed ==
    HasData =>
        LET cap == IF LargestAtInit < 10 THEN 10
                   ELSE IF LargestAtInit > 32768 THEN 32768
                   ELSE LargestAtInit
        IN  /\ pData.maximumSamples = cap
            /\ DOMAIN pData.buffer = 0..(cap - 1)

\* C12 witness: a record started with the sizes 12 and 15 (INPD declared
\* LONG) has the capacity 15 after a reset and cycles that ask for the
\* size 40 and the maximum 40.
C12_Witness ==
    /\ HasData
    /\ atInit.b = 12 /\ atInit.d = 15 /\ ft.d = "LONG"
    /\ pData.maximumSamples = 15
    /\ nAccepted >= 2 /\ nResets >= 1
    /\ inp.b = 40 /\ inp.m = 40
    /\ pData.sampleCount > 0

\* C13: every stored measurement is the mean of the latest k accepted raw
\* values, k being the decimation factor of the cycle that stored it (the
\* raw value itself when k = 1), at the time of the last of them, also when
\* the factor changes from cycle to cycle; a cycle that stores nothing has
\* counted its value.
C13_DecimatedGroups ==
    /\ \A c \in 1..Len(raws) :
          raws[c].stored # <<>> =>
              LET k == raws[c].factor IN
              /\ c >= k
              /\ raws[c].stored =
                    <<Sample(raws[c].time,
                             IF k = 1 THEN raws[c].value
                             ELSE DDiv(SumOfRaws(c - k + 1, c), D(k)))>>
    /\ (HasData /\ raws # <<>> /\ raws[Len(raws)].stored = <<>>) =>
          pData.decimateCount = raws[Len(raws)].pending + 1

\* C14: in an accepted cycle with the reset flag 1 the store and the
\* accumulator are cleared first and the cycle's own value is then
\* accumulated: with the factor 1 the cycle ends with that one measurement
\* stored and the count 1 emitted; a reset flag other than 1 clears nothing.
C14_ResetBeforeIngest ==
    [][(HasData /\ Acceptable(inp')) =>
          /\ (inp'.r = 1 /\ inp'.l = 1) =>
                /\ pData'.sampleCount = 1
                /\ pData'.buffer[0] = Sample(inp'.time, inp'.a)
                /\ pData'.decimateCount = 0
                /\ pData'.decimateTotal = Zero
                /\ out'.vala = 1
          /\ (inp'.r = 1 /\ inp'.l >= 2) =>
                /\ pData'.sampleCount = 0
                /\ pData'.decimateCount = 1
                /\ pData'.decimateTotal = inp'.a
                /\ out'.vala = 0
          /\ inp'.r # 1 =>
                /\ pData'.sampleCount >= pData.sampleCount
                /\ \A i \in 0..(pData.sampleCount - 1) :
                      pData'.buffer[i] = pData.buffer[i]
                /\ \/ pData'.sampleCount = pData.sampleCount + 1
                   \/ /\ pData'.decimateCount = pData.decimateCount + 1
                      /\ pData'.decimateTotal = DAdd(pData.decimateTotal, inp'.a)
      ]_vars

\* C14 witness: the second cycle, with the reset flag 1 and the factor 1,
\* left its own value 2 as the only measurement.
C14_Witness ==
    /\ HasData
    /\ nAccepted = 2 /\ nResets >= 1
    /\ inp.r = 1 /\ inp.l = 1
    /\ Len(raws) = 1
    /\ pData.sampleCount = 1
    /\ pData.buffer[0] = Sample(2, D(2))
    /\ out.vala = 1

\* The store, the outputs and the status the step would have left had its
\* input fields been in.
CycleWith(in) ==
    LET r == RattleProcess(ft, in, dpvt, out, ZeroSample)
    IN  [dpvt |-> r.dpvt, out |-> r.out, ret |-> r.ret]

\* What the step left.
CycleLeft == [dpvt |-> dpvt', out |-> out', ret |-> ret']

\* C18: a decimation factor <= 0 acts as the factor 1 (the cycle stores its
\* raw value as one measurement, exactly as the same cycle with the factor 1
\* does), and a rate or time scale factor <= 0 gives the outputs of the
\* factor 1.0: the rate is the slope and the eta is (threshold - intercept)
\* / slope, neither multiplied nor divided by the factor supplied.
C18_NonPositiveFloored ==
    [][(HasData /\ Acceptable(inp')) =>
          /\ inp'.l <= 0 =>
                /\ CycleLeft = CycleWith([inp' EXCEPT !.l = 1])
                /\ pData'.sampleCount = (IF inp'.r = 1 THEN 0 ELSE pData.sampleCount) + 1
                /\ pData'.buffer[pData'.sampleCount - 1] = Sample(inp'.time, inp'.a)
                /\ pData'.decimateCount = 0
                /\ pData'.decimateTotal = Zero
          /\ DLeZero(inp'.s) =>
                /\ CycleLeft = CycleWith([inp' EXCEPT !.s = D(1)])
                /\ \A j \in Slots : RateOut(j)' = slope'[j]
          /\ DLeZero(inp'.t) =>
                /\ CycleLeft = CycleWith([inp' EXCEPT !.t = D(1)])
                /\ \A j \in Slots :
                      EtaOut(j)' = DDiv(DSub(thresholds(ft, inp')[j], intersect'[j]),
                                        slope'[j])
      ]_vars

\* C18 witness: the second cycle, with the decimation factor -1 and the
\* scale factors -3 and -1, stored its raw value 2 behind the value 1: the
\* first slot has the rate 1 and the eta (1 - 2) / 1 = -1.
C18_Witness ==
    /\ HasData
    /\ nAccepted = 2
    /\ inp.l = -1 /\ inp.s = D(-3) /\ inp.t = D(-1) /\ inp.r = 0
    /\ pData.sampleCount = 2
    /\ pData.buffer[1] = Sample(2, D(2))
    /\ RateOut(1) = D(1)
    /\ EtaOut(1) = D(-1)

\* The sample size of slot j as the cycle takes it: the size field (2 when
\* it is not LONG) brought into 2 .. capacity.
SizeField(j) == <<"b", "d", "f", "h">>[j]

WindowSize(j) ==
    LET size == IF ft[SizeField(j)] = "LONG" THEN inp[SizeField(j)] ELSE 2
    IN  IF size < 2 THEN 2
        ELSE IF size > pData.maximumSamples THEN pData.maximumSamples
        ELSE size

\* A store that holds the latest w stored measurements and nothing else.
WindowOnly(w) ==
    [pData EXCEPT !.sampleCount = w,
                  !.buffer = [i \in DOMAIN pData.buffer |->
                                 IF i < w THEN pData.buffer[pData.sampleCount - w + i]
                                 ELSE ZeroSample]]

\* C15: in an accepted cycle the fit of each slot reads exactly the latest
\* min(n, length) stored measurements and nothing else, n being the slot's
\* sample size brought into 2 .. capacity (2 when the size field is not
\* LONG) and length the store length after the cycle's insertion; its result
\* is that of the fit of these measurements alone.
C15_ReadsWindowOnly ==
    LastAccepted =>
        \A j \in Slots :
            LET n == WindowSize(j)
                w == MIN(n, pData.sampleCount)
            IN  /\ number[j] = n
                /\ SlotsRead(pData, number[j]) =
                      (pData.sampleCount - w)..(pData.sampleCount - 1)
                /\ [slope |-> slope[j], intersect |-> intersect[j]] =
                      slopeIntersect(WindowOnly(w), n, ZeroSample)

\* C19: in an accepted cycle every read and write of the buffer (the
\* insertion, the shuffle of a full buffer, the reads of slopeIntersect,
\* among them that of the newest sample at sampleCount - 1) is at an index
\* in 0 .. capacity - 1, also when the cycle ends with an empty store.
C19_IndicesInBuffer ==
    [][(HasData /\ Acceptable(inp')) =>
          SlotsUsed(ft, inp', pData) \subseteq 0..(pData.maximumSamples - 1)]_vars

\* The time stamps of the accepted cycles since setup or the latest reset
\* never went back.
TimesNonDecreasing ==
    \A c \in 2..Len(raws) : raws[c - 1].time <= raws[c].time

\* C16: as long as the time stamps of the accepted cycles do not decrease,
\* the stored measurements are in ascending order of time, oldest first,
\* through appends, evictions from a full store, decimation and resets.
C16_TimeOrdered ==
    (HasData /\ TimesNonDecreasing) =>
        \A i \in 0..(pData.sampleCount - 2) :
            pData.buffer[i].time <= pData.buffer[i + 1].time

\* C16 witness: two measurements were inserted into the full store, the last
\* two at the same time; the stored times ascend from the third measurement
\* inserted to the latest.
C16_Witness ==
    /\ HasData
    /\ TimesNonDecreasing
    /\ pData.sampleCount = pData.maximumSamples
    /\ Len(log) = pData.maximumSamples + 2
    /\ pData.buffer[0] = log[3]
    /\ pData.buffer[0].time < pData.buffer[1].time
    /\ pData.buffer[pData.maximumSamples - 2].time =
          pData.buffer[pData.maximumSamples - 1].time

\* The scale factors as the cycle uses them.
RateScale == IF DLeZero(inp.s) THEN D(1) ELSE inp.s
TimeScale == IF DLeZero(inp.t) THEN D(1) ELSE inp.t

\* The fitted line of slot j is at its threshold at a time before that of
\* the latest measurement: it rises and is above, or falls and is below.
PassedThreshold(j) ==
    LET thr == thresholds(ft, inp)[j] IN
    \/ DLess(Zero, slope[j]) /\ DLess(thr, intersect[j])
    \/ DLess(slope[j], Zero) /\ DLess(intersect[j], thr)

\* The accepted cycles were those of the example: the values 2 * t at the
\* times t = 0 .. 9, decimation factor 1, scale factors 1.
ExampleCycles ==
    /\ Len(raws) = 10
    /\ \A c \in 1..10 : raws[c] = [value |-> D(2 * (c - 1)), time |-> c - 1,
                                   factor |-> 1, pending |-> 0,
                                   stored |-> <<Sample(c - 1, D(2 * (c - 1)))>>]
    /\ inp.s = D(1) /\ inp.t = D(1)

\* C17: for a slot with a finite slope other than 0 the rate is slope *
\* rateScaleFactor and the eta is ((threshold - intercept) / slope) /
\* timeScaleFactor, negative exactly when the fitted line has passed the
\* threshold; capacity 10, window 5, threshold 100 and the values 2 * t at
\* t = 0 .. 9 give the rate 2 and the eta 41 after the tenth cycle.
C17_RateAndEta ==
    LastAccepted =>
        /\ \A j \in Slots :
              (IsFinite(slope[j]) /\ ~IsZero(slope[j])) =>
                  /\ RateOut(j) = DMul(slope[j], RateScale)
                  /\ EtaOut(j) =
                        DDiv(DDiv(DSub(thresholds(ft, inp)[j], intersect[j]), slope[j]),
                             TimeScale)
                  /\ DLess(EtaOut(j), Zero) <=> PassedThreshold(j)
        /\ (ExampleCycles /\ pData.maximumSamples = 10 /\ number[4] = 5
                /\ thresholds(ft, inp)[4] = D(100)) =>
              /\ slope[4] = D(2) /\ intersect[4] = D(18)
              /\ RateOut(4) = D(2)
              /\ EtaOut(4) = D(41)

\* C17 witness: the tenth cycle of the example: rate 2 and eta 41 for the
\* threshold 100, and the eta (1 - 18) / 2 for the threshold 1 the line has
\* passed.
C17_Witness ==
    /\ LastAccepted
    /\ ExampleCycles
    /\ pData.maximumSamples = 10 /\ pData.sampleCount = 10
    /\ number[4] = 5
    /\ RateOut(4) = D(2)
    /\ EtaOut(4) = D(41)
    /\ PassedThreshold(1)
    /\ EtaOut(1) = Rat(-17, 2)

\* The accepted cycles since setup or the latest reset (that one included)
\* all had the decimation factor k.
FactorHeld(k) == \A c \in 1..Len(raws) : raws[c].factor = k

\* C20: with a decimation factor k >= 1 held since setup or the latest
\* reset cycle, after m accepted cycles the count emitted is the store
\* length, min(m div k, capacity); every accepted cycle emits the count and
\* the four rate/eta pairs of the store as it is, also while the decimation
\* is pending; skipped and rejected cycles do not count.
C20_EmittedCount ==
    /\ [](HasData =>
            /\ out.vala = pData.sampleCount
            /\ \A k \in 1..(Len(raws) + 1) :
                  FactorHeld(k) =>
                      pData.sampleCount = MIN(Len(raws) \div k, pData.maximumSamples)
            /\ LastAccepted =>
                  \A j \in Slots :
                      /\ RateOut(j) = DMul(slope[j], RateScale)
                      /\ EtaOut(j) =
                            DDiv(DDiv(DSub(thresholds(ft, inp)[j], intersect[j]),
                                      slope[j]), TimeScale)
                      /\ [slope |-> slope[j], intersect |-> intersect[j]] =
                            slopeIntersect(pData, WindowSize(j), ZeroSample))
    /\ [][(HasData /\ ~Acceptable(inp')) =>
              /\ raws' = raws
              /\ out' = out
              /\ pData'.sampleCount = pData.sampleCount]_vars

\* C20 witness: the third cycle since a reset of the full store, all three
\* with the factor 2: one measurement stored, one value pending, the count 1
\* emitted again with the outputs of a one-measurement store.
C20_Witness ==
    /\ LastAccepted
    /\ nResets = 1
    /\ Len(raws) = 3 /\ FactorHeld(2)
    /\ raws[3].stored = <<>>
    /\ pData.decimateCount = 1
    /\ pData.sampleCount = 1
    /\ out.vala = 1
    /\ RateOut(1) = NaN
    /\ pData.buffer[pData.maximumSamples - 1] # ZeroSample

====
